---- MODULE Spec2Model ----
(***************************************************************************)
(* A model of filepack: the Archive facade (archive.py), the Compression   *)
(* facade (compression.py) and the unified FilePack object (filepack.py),  *)
(* over an explicit file system.                                           *)
(*                                                                         *)
(* A path is a record [dir, name]: dir is the sequence of directory        *)
(* components, name the sequence of dot-separated segments of the file     *)
(* name ("arch.tar.gz" is <<"arch","tar","gz">>).  A file's content is a   *)
(* record tagged by k: "plain" bytes, a "comp"ressed stream of some inner  *)
(* content, or an "arch"ive with a sequence of members.                    *)
(***************************************************************************)
EXTENDS Integers, Sequences, FiniteSets, TLC

VARIABLES fs, dirs, path, atype, pc, op, res, pre, work, nops, prev, e2e

vars == <<fs, dirs, path, atype, pc, op, res, pre, work, nops, prev, e2e>>

(* ------------------------------ bounds --------------------------------- *)

\* public calls made on one handle, per specification
MaxArchiveOps == 2

MaxCompressionOps == 2

MaxSizeOps == 2

MaxCallOps == 1

MaxPackOps == 4

(* ---------------------------- closed sets ------------------------------ *)

ArchiveType == {"tar", "zip", "7z"}

CompressionType == {"gz", "bz2", "xz", "lz4"}

NoType == "none"

(* ------------------------------ contents ------------------------------- *)

Plain(d) == [k |-> "plain", d |-> d]

DirEntry == [k |-> "dir"]

Comp(a, c) == [k |-> "comp", algo |-> a, inner |-> c]

Arch(f, ms) == [k |-> "arch", fmt |-> f, mem |-> ms]

\* a file whose writer failed midway; a gives the magic bytes already written
Torn(a) == [k |-> "torn", algo |-> a]

Empty == Plain(0)

(* ------------------------------- paths --------------------------------- *)

P(d, n) == [dir |-> d, name |-> n]

Rel(n) == [dir |-> <<>>, name |-> n]

WorkDir == <<"work">>

OutDir == <<"out">>

TmpDir == <<"tmp">>

IsPrefix(s, t) == Len(s) <= Len(t) /\ SubSeq(t, 1, Len(s)) = s

Join(d, rel) == [dir |-> d \o rel.dir, name |-> rel.name]

Exists(f, p) == p \in DOMAIN f

Put(f, p, c) == [q \in DOMAIN f \cup {p} |-> IF q = p THEN c ELSE f[q]]

Unlink(f, p) == [q \in DOMAIN f \ {p} |-> f[q]]

Ancestors(d) == {SubSeq(d, 1, i) : i \in 1..Len(d)}

(* ------------------------------ sniffing ------------------------------- *)

\* filetype.guess(path).extension for the bytes c, NoType when no matcher
\* recognises them.  A tar with no member is all zero blocks: it carries no
\* "ustar" magic and is not recognised.
Sniff(c) ==
    IF c.k \in {"comp", "torn"} THEN c.algo
    ELSE IF c.k = "arch" /\ ~(c.fmt = "tar" /\ c.mem = <<>>) THEN c.fmt
    ELSE NoType

(* -------------------------- container backends ------------------------- *)

Member(nm, isdir, data) == [name |-> nm, isdir |-> isdir, data |-> data]

NameSet(ms) == {ms[i].name : i \in 1..Len(ms)}

HasName(ms, nm) == \E i \in 1..Len(ms) : ms[i].name = nm

\* tarfile.getmember / zipfile.NameToInfo: the last entry of that name
LastNamed(ms, nm) ==
    ms[CHOOSE i \in 1..Len(ms) :
          ms[i].name = nm /\ \A j \in (i+1)..Len(ms) : ms[j].name # nm]

\* the directory a directory entry stands for ("d" in tar, "d/" in zip, 7z)
EntryDir(m) ==
    IF m.name.name = <<>> THEN m.name.dir ELSE m.name.dir \o m.name.name

\* <Format>Object.extract_member: the files and directories after the entry
\* named nm of the members ms was extracted under directory t
ExtractFiles(f, ms, nm, t) ==
    LET m == LastNamed(ms, nm)
    IN  IF m.isdir THEN f ELSE Put(f, Join(t, m.name), m.data)

ExtractDirs(ds, ms, nm, t) ==
    LET m == LastNamed(ms, nm)
    IN  IF m.isdir THEN ds \cup Ancestors(t \o EntryDir(m))
        ELSE ds \cup Ancestors(t \o m.name.dir)

\* the files below directory d, each as a path relative to base
FilesUnder(f, d) == {q \in DOMAIN f : IsPrefix(d, q.dir)}

RECURSIVE SetToSeq(_)
SetToSeq(S) ==
    IF S = {} THEN <<>>
    ELSE LET x == CHOOSE y \in S : TRUE IN <<x>> \o SetToSeq(S \ {x})

RelTo(q, base) == [dir |-> SubSeq(q.dir, Len(base) + 1, Len(q.dir)), name |-> q.name]

\* a backend that stored the source path as given, directories included
AddedEntriesFullPath(fmt, f, base, e) ==
    <<Member([dir |-> base, name |-> e.name], e.isdir,
             IF e.isdir THEN DirEntry ELSE f[P(base, e.name)])>>

\* <Format>Object.add_member(member_path) with arcname = member_path.name:
\* the entries appended for the directory entry e (a file or a directory
\* directly under base).  tarfile.add recurses into a directory; ZipFile.write
\* and SevenZipFile.write store the directory entry alone.
AddedEntries(fmt, f, base, e) ==
    IF ~e.isdir
    THEN <<Member(Rel(e.name), FALSE, f[P(base, e.name)])>>
    ELSE IF fmt = "tar"
    THEN <<Member(Rel(e.name), TRUE, DirEntry)>> \o
         [i \in 1..Cardinality(FilesUnder(f, base \o e.name)) |->
            LET q == SetToSeq(FilesUnder(f, base \o e.name))[i]
            IN  Member(RelTo(q, base), FALSE, f[q])]
    ELSE <<Member([dir |-> e.name, name |-> <<>>], TRUE, DirEntry)>>

\* Path.iterdir() of directory d: its files and its sub-directories
IterDir(f, ds, d) ==
    {[isdir |-> FALSE, name |-> q.name] : q \in {q \in DOMAIN f : q.dir = d}}
    \cup {[isdir |-> TRUE, name |-> <<x[Len(x)]>>] :
            x \in {x \in ds : Len(x) = Len(d) + 1 /\ IsPrefix(d, x)}}

Perms(S) ==
    {s \in [1..Cardinality(S) -> S] :
        \A i, j \in 1..Cardinality(S) : i # j => s[i] # s[j]}

(* --------------------------- Archive facade ---------------------------- *)

TmpFiles == TmpDir \o <<"files">>

\* a rebuild that wrote the new container straight over the handle's path
NewArchiveInPlace(p) == p

\* archive.py:262 new_archive_path = Path(temporary_directory) / "new_archive"
NewArchivePath(p) == P(TmpDir, <<"new_archive">>)

\* archive.py:249 the directory remove_member extracts the kept members into
ExtractScratch(p) == TmpFiles

\* <Format>Client.open(path, "r"): the bytes must be a container of the
\* handle's format
CanRead(f, p, t) ==
    /\ t \in ArchiveType
    /\ Exists(f, p)
    /\ f[p].k = "arch"
    /\ f[p].fmt = t

\* Archive.get_members: the listing, <<>> when the path is absent
GetMembers(f, p) == IF Exists(f, p) /\ f[p].k = "arch" THEN f[p].mem ELSE <<>>

\* Archive.get_member(name) is not None / Archive.member_exist
MemberExist(f, p, nm) == HasName(GetMembers(f, p), nm)

\* members() fails when the file at the path is no container of the format
ListingFails(f, p, t) == Exists(f, p) /\ ~CanRead(f, p, t)

\* a scratch directory that is left behind
CleanupSkipped(f) == f

\* TemporaryDirectory.__exit__: everything below the scratch directory goes
Cleanup(f) == [q \in {q \in DOMAIN f : ~IsPrefix(TmpDir, q.dir)} |-> f[q]]

CleanupDirs(ds) == {d \in ds : ~IsPrefix(TmpDir, d)}

Ok(r) == [ok |-> TRUE, kind |-> "", cause |-> "", ret |-> r]

Err(kind, cause) == [ok |-> FALSE, kind |-> kind, cause |-> cause, ret |-> <<>>]

\* an error that reaches the caller as raised, wrapped by no decorator
Raised(kind) == Err(kind, "")

NoWork == [todo |-> <<>>, adds |-> <<>>]

Snapshot == [fs |-> fs, dirs |-> dirs, path |-> path]

\* compression.py:197-200 the default compress target: the name with the
\* algorithm appended as one more suffix
Suffixed(p, a) == P(p.dir, p.name \o <<a>>)

\* how far the calls made so far follow test_filepack.py's
\* test_archive_then_compress_should_be_successful: 0 before the first call,
\* k after its k-th call, 5 once the calls left the scenario
E2ENext(o) ==
    IF /\ e2e = 0 /\ nops = 0 /\ ~Exists(fs, path)
       /\ o = [name |-> "add_member", src |-> P(<<"work">>, <<"hello", "txt">>), ip |-> FALSE]
    THEN 1
    ELSE IF /\ e2e = 1 /\ res.ok /\ o.name = "compress" /\ o.ip
            /\ o.tgt = <<Suffixed(path, o.algo)>>
    THEN 2
    ELSE IF /\ e2e = 2 /\ res.ok /\ o.name = "decompress" /\ o.ip
            /\ o.algo = op.algo /\ o.tgt = <<pre.path>>
    THEN 3
    ELSE IF /\ e2e = 3 /\ res.ok
            /\ o = [name |-> "extract_member",
                    nm |-> Rel(<<"hello", "txt">>), t |-> <<"out">>, ip |-> FALSE]
    THEN 4
    ELSE 5

\* the bookkeeping of a public call: the call, the state it started from and
\* the call before it
Begin(o) ==
    /\ pc = "idle"
    /\ nops' = nops + 1
    /\ op' = o
    /\ pre' = Snapshot
    /\ prev' = [op |-> op, res |-> res, pre |-> pre]
    /\ e2e' = E2ENext(o)

\* Archive.__init__: the format tag, from the suffix when the path is absent
\* and from the sniffed bytes when it exists; NoType when it raises ValueError
Suffix(p) == IF Len(p.name) > 1 THEN p.name[Len(p.name)] ELSE ""

\* a constructor that reads the suffix whether or not the path exists
ArchiveInitBySuffix(f, p) ==
    IF Suffix(p) \in ArchiveType THEN Suffix(p) ELSE NoType

ArchiveInit(f, p) ==
    IF ~Exists(f, p)
    THEN IF Suffix(p) \in ArchiveType THEN Suffix(p) ELSE NoType
    ELSE IF Sniff(f[p]) \in ArchiveType THEN Sniff(f[p]) ELSE NoType

(* ------------------------------ the inputs ----------------------------- *)

SrcA == P(WorkDir, <<"hello", "txt">>)

SrcB == P(WorkDir \o <<"sub">>, <<"notes", "txt">>)

SrcMissing == P(WorkDir, <<"nonexistentfile", "txt">>)

Sources == {SrcA, SrcB, SrcMissing}

MemA == Member(Rel(<<"member", "txt">>), FALSE, Plain(3))

MemB == Member(Rel(<<"other", "txt">>), FALSE, Plain(4))

MemC == Member(Rel(<<"third", "txt">>), FALSE, Plain(5))

MemNested == Member([dir |-> <<"docs">>, name |-> <<"readme", "txt">>], FALSE, Plain(6))

MemH == Member(Rel(<<"hello", "txt">>), FALSE, Plain(7))

\* a member holding a gzip stream
MemZ == Member(Rel(<<"data", "gz">>), FALSE, Comp("gz", Plain(1)))

\* the member lists of the archives a handle is constructed on
InitMemberLists ==
    {<<MemA>>, <<MemA, MemB, MemC>>, <<MemNested, MemB>>, <<MemH, MemA>>,
     <<MemZ>>}

\* the members whose type is read
TypeNames == {MemA.name, MemZ.name}

MemberNames ==
    {MemA.name, MemB.name, Rel(SrcA.name), Rel(<<"nonexistent", "txt">>)}

ArchivePath(t) == P(WorkDir, <<"test", t>>)

BaseFs == (SrcA :> Plain(1)) @@ (SrcB :> Plain(2))

BaseDirs == {WorkDir, WorkDir \o <<"sub">>}

InitCommon ==
    /\ dirs = BaseDirs
    /\ pc = "idle"
    /\ op = [name |-> "init"]
    /\ res = Ok(<<>>)
    /\ pre = [fs |-> fs, dirs |-> dirs, path |-> path]
    /\ prev = [op |-> [name |-> "none"], res |-> Ok(<<>>), pre |-> pre]
    /\ work = NoWork
    /\ nops = 0
    /\ e2e = 0

\* Archive(path) on an absent path with an archive suffix, or on an existing
\* archive (conftest.py archive_file)
InitArchive ==
    /\ \E t \in ArchiveType :
          /\ path = ArchivePath(t)
          /\ \/ fs = BaseFs
             \/ \E ms \in InitMemberLists : fs = Put(BaseFs, path, Arch(t, ms))
    /\ atype = ArchiveInit(fs, path)
    /\ atype \in ArchiveType
    /\ InitCommon

(* ---------------------- Archive facade: operations --------------------- *)

Finish(r) ==
    /\ res' = r
    /\ pc' = "idle"
    /\ work' = NoWork

\* <Format>Client.open(path, "a"): creates the container when the path is
\* absent, else the bytes must be a container of the handle's format
CanAppend(f, p, t) == t \in ArchiveType /\ (Exists(f, p) => CanRead(f, p, t))

\* the file at p once <Format>Client.open(p, "a") was entered and left with
\* nothing added: an existing container is as it was; an absent one was
\* created, tarfile leaving a file of no bytes (its __exit__ on an error
\* closes the file without the end blocks), zipfile an empty container, the
\* 7z library one or the other
OpenedForAppend(f, p, t) ==
    IF Exists(f, p) THEN {f[p]}
    ELSE IF t = "tar" THEN {Empty}
    ELSE IF t = "zip" THEN {Arch(t, <<>>)}
    ELSE {Empty, Arch(t, <<>>)}

\* an add_member that looked for its source once the container was open
SourceCheckedLate(f, p, t) ==
    IF t \in ArchiveType /\ ~Exists(f, p)
    THEN Put(f, p, CHOOSE c \in OpenedForAppend(f, p, t) : TRUE)
    ELSE f

\* archive.py:225-226: the source is looked for before the container is
\* opened at line 228, so a missing source leaves the files as they are
SourceChecked(f, p, t) == f

\* Archive.add_member(member_path, in_place); the backend's add may fail on
\* a source it cannot read
AddMember(src, ip) ==
    /\ Begin([name |-> "add_member", src |-> src, ip |-> ip])
    /\ UNCHANGED <<dirs, path, atype>>
    /\ IF ~Exists(fs, src)
       THEN /\ Finish(Err("FailedToAddNewMemberToArchive", "FileNotFoundError"))
            /\ fs' = SourceChecked(fs, path, atype)
       ELSE IF ~CanAppend(fs, path, atype)
       THEN /\ Finish(Err("FailedToAddNewMemberToArchive", "OpenError"))
            /\ UNCHANGED fs
       ELSE LET old == GetMembers(fs, path)
                new == old \o AddedEntries(atype, fs, src.dir,
                                           [isdir |-> FALSE, name |-> src.name])
                written == Put(fs, path, Arch(atype, new))
            IN  \/ /\ fs' = IF ip THEN Unlink(written, src) ELSE written
                   /\ Finish(Ok(<<>>))
                \/ /\ \E c \in OpenedForAppend(fs, path, atype) : fs' = Put(fs, path, c)
                   /\ Finish(Err("FailedToAddNewMemberToArchive", "PermissionError"))

\* an operation that returned quietly on a name that is no member
MemberNotFoundIgnored(kind) == Ok(<<>>)

\* raise ArchiveMemberDoesNotExist() under the operation's decorator
\* (archive.py:199-200, 245-246)
MemberNotFound(kind) == Err(kind, "ArchiveMemberDoesNotExist")

\* remove_member after its membership check: the listing it iterates
\* (archive.py:254) and its scratch directory (archive.py:248-252)
RmEnter ==
    /\ pc' = "rm_extract"
    /\ work' = [todo |-> GetMembers(fs', path), adds |-> <<>>]

RmErr(cause) ==
    IF op.name = "extract_member"
    THEN Err("FailedToExtractArchiveMember", "FailedToRemoveArchiveMember")
    ELSE Err("FailedToRemoveArchiveMember", cause)

\* Archive.extract_member(member_name, target_directory_path, in_place) up to
\* its call of remove_member
ExtractMember(nm, t, ip) ==
    /\ Begin([name |-> "extract_member", nm |-> nm, t |-> t, ip |-> ip])
    /\ UNCHANGED <<path, atype>>
    /\ IF atype = NoType \/ ListingFails(fs, path, atype)
       THEN /\ Finish(Err("FailedToExtractArchiveMember", "FailedToGetArchiveMember"))
            /\ UNCHANGED <<fs, dirs>>
       ELSE IF ~MemberExist(fs, path, nm)
       THEN /\ Finish(MemberNotFound("FailedToExtractArchiveMember"))
            /\ UNCHANGED <<fs, dirs>>
       ELSE /\ fs' = ExtractFiles(fs, fs[path].mem, nm, t)
            /\ dirs' = ExtractDirs(dirs, fs[path].mem, nm, t)
            /\ IF ip
               THEN /\ RmEnter
                    /\ UNCHANGED res
               ELSE Finish(Ok(<<>>))

\* Archive.remove_member(member_name): the membership check (archive.py:245)
RemoveMember(nm) ==
    /\ Begin([name |-> "remove_member", nm |-> nm])
    /\ UNCHANGED <<path, atype, fs, dirs>>
    /\ IF atype = NoType \/ ListingFails(fs, path, atype)
       THEN Finish(Err("FailedToRemoveArchiveMember", "FailedToGetArchiveMember"))
       ELSE IF ~MemberExist(fs, path, nm)
       THEN Finish(MemberNotFound("FailedToRemoveArchiveMember"))
       ELSE /\ RmEnter
            /\ UNCHANGED res

Step == UNCHANGED <<atype, op, pre, prev, nops, e2e>>

\* archive.py:254-260: one turn of the loop, extracting a kept member into the
\* scratch directory, or failing there
RmExtract ==
    /\ UNCHANGED path
    /\ pc = "rm_extract"
    /\ work.todo # <<>>
    /\ Step
    /\ LET m == Head(work.todo)
       IN  IF m.name = op.nm
           THEN /\ work' = [work EXCEPT !.todo = Tail(@)]
                /\ UNCHANGED <<fs, dirs, pc, res>>
           ELSE \/ /\ fs' = ExtractFiles(fs, fs[path].mem, m.name, ExtractScratch(path))
                   /\ dirs' = ExtractDirs(dirs, fs[path].mem, m.name, ExtractScratch(path))
                   /\ work' = [work EXCEPT !.todo = Tail(@)]
                   /\ UNCHANGED <<pc, res>>
                \/ /\ fs' = Cleanup(fs)
                   /\ dirs' = CleanupDirs(dirs)
                   /\ Finish(RmErr("ExtractFailed"))

\* archive.py:262-265: the new container is opened for writing and the
\* scratch directory is listed, in the order the file system gives
RmOpenNew ==
    /\ UNCHANGED path
    /\ pc = "rm_extract"
    /\ work.todo = <<>>
    /\ Step
    /\ \E order \in Perms(IterDir(fs, dirs, TmpFiles)) :
          work' = [todo |-> <<>>, adds |-> order]
    /\ fs' = Put(fs, NewArchivePath(path), Arch(atype, <<>>))
    /\ pc' = "rm_build"
    /\ UNCHANGED <<dirs, res>>

\* archive.py:266: one extracted file is added to the new container, or the
\* add fails
RmAdd ==
    /\ UNCHANGED path
    /\ pc = "rm_build"
    /\ work.adds # <<>>
    /\ Step
    /\ \/ /\ fs' = Put(fs, NewArchivePath(path),
                       Arch(atype, fs[NewArchivePath(path)].mem \o
                            AddedEntries(atype, fs, TmpFiles, Head(work.adds))))
          /\ work' = [work EXCEPT !.adds = Tail(@)]
          /\ UNCHANGED <<dirs, pc, res>>
       \/ /\ fs' = Cleanup(fs)
          /\ dirs' = CleanupDirs(dirs)
          /\ Finish(RmErr("AddFailed"))

\* archive.py:268: the rename over the handle's path, which fails when the
\* scratch directory is on another file system; then the scratch directory
\* is removed
RmRename ==
    /\ UNCHANGED path
    /\ pc = "rm_build"
    /\ work.adds = <<>>
    /\ Step
    /\ dirs' = CleanupDirs(dirs)
    /\ \/ /\ fs' = Cleanup(Put(Unlink(fs, NewArchivePath(path)), path,
                               fs[NewArchivePath(path)]))
          /\ Finish(Ok(<<>>))
       \/ /\ fs' = Cleanup(fs)
          /\ Finish(RmErr("RenameFailed"))

\* archive.py:169-170: the early return of extract_all when the listing is
\* empty (an absent archive lists as empty, archive.py:123-124)
NothingToExtractNever(ms) == FALSE

NothingToExtract(ms) == ms = <<>>

\* archive.py:172-178: the files after extract_all left its read session;
\* the unlink is reached only when the session ended without an error (done)
ArchiveDeletedEarly(f, ip, done, p) == IF ip THEN Unlink(f, p) ELSE f

ArchiveAfterExtract(f, ip, done, p) == IF ip /\ done THEN Unlink(f, p) ELSE f

\* Archive.extract_all(target_directory_path, in_place) up to the open of the
\* container for reading
ExtractAll(t, ip) ==
    /\ Begin([name |-> "extract_all", t |-> t, ip |-> ip])
    /\ UNCHANGED <<path, atype, fs, dirs>>
    /\ IF atype = NoType \/ ListingFails(fs, path, atype)
       THEN Finish(Err("FailedToExtractArchiveMembers", "FailedToGetArchiveMembers"))
       ELSE IF NothingToExtract(GetMembers(fs, path))
       THEN Finish(Ok(<<>>))
       ELSE /\ pc' = "xa_extract"
            /\ work' = [todo |-> GetMembers(fs, path), adds |-> <<>>]
            /\ UNCHANGED res

\* archives/models.py:45-50: one turn of the backend's loop, extracting the
\* next listed member by its name, or failing there
XaExtract ==
    /\ UNCHANGED path
    /\ pc = "xa_extract"
    /\ work.todo # <<>>
    /\ Step
    /\ LET m == Head(work.todo)
       IN  \/ /\ fs' = ExtractFiles(fs, fs[path].mem, m.name, op.t)
              /\ dirs' = ExtractDirs(dirs, fs[path].mem, m.name, op.t)
              /\ work' = [work EXCEPT !.todo = Tail(@)]
              /\ UNCHANGED <<pc, res>>
           \/ /\ fs' = ArchiveAfterExtract(fs, op.ip, FALSE, path)
              /\ UNCHANGED dirs
              /\ Finish(Err("FailedToExtractArchiveMembers", "ExtractFailed"))

\* archive.py:172-178: the container is closed and, in place, the archive is
\* deleted
XaFinish ==
    /\ UNCHANGED path
    /\ pc = "xa_extract"
    /\ work.todo = <<>>
    /\ Step
    /\ fs' = ArchiveAfterExtract(fs, op.ip, TRUE, path)
    /\ UNCHANGED dirs
    /\ Finish(Ok(<<>>))

\* AbstractArchiveObject.get_member (archives/models.py:52-62): the first
\* listed member of that name, <<>> for None
FirstNamed(ms, nm) ==
    IF ~HasName(ms, nm) THEN <<>>
    ELSE <<ms[CHOOSE i \in 1..Len(ms) :
                ms[i].name = nm /\ \A j \in 1..(i-1) : ms[j].name # nm]>>

\* Archive.get_members as a public call (archive.py:112-132)
GetMembersOf(f, p, t) ==
    IF ~Exists(f, p) THEN Ok(<<>>)
    ELSE IF ~CanRead(f, p, t)
    THEN Err("FailedToGetArchiveMembers", "ReadError")
    ELSE Ok(f[p].mem)

\* a get_member that opens the container whether or not the path exists
GetMemberOfUnchecked(f, p, t, nm) ==
    IF ~CanRead(f, p, t)
    THEN Err("FailedToGetArchiveMember", "ReadError")
    ELSE Ok(FirstNamed(f[p].mem, nm))

\* Archive.get_member as a public call (archive.py:134-154)
GetMemberOf(f, p, t, nm) ==
    IF ~Exists(f, p) THEN Ok(<<>>)
    ELSE IF ~CanRead(f, p, t)
    THEN Err("FailedToGetArchiveMember", "ReadError")
    ELSE Ok(FirstNamed(f[p].mem, nm))

\* Archive.member_exist as a public call (archive.py:100-110): get_member's
\* outcome compared with None, its error passed through
MemberExistOf(f, p, t, nm) ==
    LET r == GetMemberOf(f, p, t, nm)
    IN  IF r.ok THEN Ok(<<r.ret # <<>>>>) ELSE r

\* a call that reads and returns
Ask(o, r) ==
    /\ Begin(o)
    /\ UNCHANGED <<fs, dirs, path, atype>>
    /\ Finish(r)

GetMembersQuery == Ask([name |-> "get_members"], GetMembersOf(fs, path, atype))

GetMemberQuery(nm) ==
    Ask([name |-> "get_member", nm |-> nm], GetMemberOf(fs, path, atype, nm))

MemberExistQuery(nm) ==
    Ask([name |-> "member_exist", nm |-> nm], MemberExistOf(fs, path, atype, nm))

\* a remove_all that empties the file where it stands
RemoveAllTruncates(f, p) == IF Exists(f, p) THEN Put(f, p, Empty) ELSE f

\* archive.py:277-281: the file at the handle's path is unlinked when there
\* is one
AfterRemoveAll(f, p) == IF Exists(f, p) THEN Unlink(f, p) ELSE f

\* Archive.remove_all(): the unlink, or its failure
RemoveAll ==
    /\ Begin([name |-> "remove_all"])
    /\ UNCHANGED <<dirs, path, atype>>
    /\ \/ /\ fs' = AfterRemoveAll(fs, path)
          /\ Finish(Ok(<<>>))
       \/ /\ Exists(fs, path)
          /\ UNCHANGED fs
          /\ Finish(Err("FailedToRemoveArchiveMembers", "PermissionError"))

\* a path read as a directory: the directory of that name
AsDir(p) == p.dir \o p.name

\* archives/models.py:113-115 temporary_directory / self._name, the
\* directory the member is extracted under
MemberScratch(nm) == TmpDir \o AsDir(nm)

\* get_file_type_extension(path) (utils.py:34-48): filetype.guess opens the
\* path to read its first bytes, and the extension of the match is returned
GuessAt(f, ds, p) ==
    IF AsDir(p) \in ds THEN Raised("IsADirectoryError")
    ELSE IF ~Exists(f, p) THEN Raised("FileNotFoundError")
    ELSE IF Sniff(f[p]) = NoType THEN Raised("ValueError")
    ELSE Ok(<<Sniff(f[p])>>)

UnknownFileType == "Unknown File Type"

\* archives/models.py:121-128: the guess, or the unknown type when the
\* guess raised
TypeOfGuess(g) == IF g.ok THEN g.ret[1] ELSE UnknownFileType

\* AbstractArchiveMember.type of a Member taken from a listing made now or
\* before the last call: the container is opened and the member extracted
\* by name below a scratch directory (archives/models.py:110-119)
ReadType(nm) ==
    /\ Begin([name |-> "type", nm |-> nm])
    /\ \/ HasName(GetMembers(fs, path), nm)
       \/ HasName(GetMembers(pre.fs, pre.path), nm)
    /\ UNCHANGED <<path, atype>>
    /\ IF ~CanRead(fs, path, atype)
       THEN /\ Finish(Raised(IF Exists(fs, path) THEN "ReadError"
                             ELSE "FileNotFoundError"))
            /\ UNCHANGED <<fs, dirs>>
       ELSE IF ~MemberExist(fs, path, nm)
       THEN /\ Finish(Raised("KeyError"))
            /\ UNCHANGED <<fs, dirs>>
       ELSE /\ fs' = ExtractFiles(fs, fs[path].mem, nm, MemberScratch(nm))
            /\ dirs' = ExtractDirs(dirs, fs[path].mem, nm, MemberScratch(nm))
            /\ pc' = "ty_sniff"
            /\ UNCHANGED <<res, work>>

\* archives/models.py:121-128: the sniffer is run on temporary_directory /
\* self._name, the directory the member was extracted under, and the scratch
\* directory is removed
TypeSniff ==
    /\ UNCHANGED path
    /\ pc = "ty_sniff"
    /\ Step
    /\ fs' = Cleanup(fs)
    /\ dirs' = CleanupDirs(dirs)
    /\ Finish(Ok(<<TypeOfGuess(GuessAt(fs, dirs,
                                       P(TmpDir \o op.nm.dir, op.nm.name)))>>))

NextArchive ==
    \/ \E src \in Sources, ip \in BOOLEAN :
          nops < MaxArchiveOps /\ AddMember(src, ip)
    \/ \E nm \in MemberNames, ip \in BOOLEAN :
          nops < MaxArchiveOps /\ ExtractMember(nm, OutDir, ip)
    \/ \E nm \in MemberNames :
          nops < MaxArchiveOps /\ RemoveMember(nm)
    \/ \E ip \in BOOLEAN :
          nops < MaxArchiveOps /\ ExtractAll(OutDir, ip)
    \/ nops < MaxArchiveOps /\ RemoveAll
    \/ nops < MaxArchiveOps /\ GetMembersQuery
    \/ \E nm \in TypeNames :
          nops < MaxArchiveOps /\ ReadType(nm)
    \/ \E nm \in MemberNames :
          nops < MaxArchiveOps /\ GetMemberQuery(nm)
    \/ \E nm \in MemberNames :
          nops < MaxArchiveOps /\ MemberExistQuery(nm)
    \/ RmExtract
    \/ RmOpenNew
    \/ RmAdd
    \/ RmRename
    \/ XaExtract
    \/ XaFinish
    \/ TypeSniff

SpecArchive == InitArchive /\ [][NextArchive]_vars

(* ------------------------- Compression facade -------------------------- *)

\* Compression.is_compressed on an existing file
IsCompressedAny(f, p, a) == Sniff(f[p]) \in CompressionType

IsCompressed(f, p, a) == Sniff(f[p]) = a

\* Path.stem of a name: the last suffix dropped, when there is one
Stem(n) ==
    IF Len(n) > 1 /\ n[Len(n)] # "" /\ ~(Len(n) = 2 /\ n[1] = "")
    THEN SubSeq(n, 1, Len(n) - 1)
    ELSE n

\* compression.py:196-203
CompressTarget(p, a, tgt) == IF tgt = <<>> THEN Suffixed(p, a) ELSE tgt[1]

\* compression.py:149-152
DecompressDefault(n) == Stem(n)

DecompressTarget(p, tgt) ==
    IF tgt = <<>> THEN P(p.dir, DecompressDefault(p.name)) ELSE tgt[1]

\* compression.py:219-221 and 164-166: the handle follows the target of an
\* in-place call
PathKept(ip, p, t) == p

PathAfter(ip, p, t) == IF ip THEN t ELSE p

\* a call that never unlinked its source
SourceKept(f, ip, p) == f

\* compression.py:219-220 and 164-165: after the streams are closed an
\* in-place call unlinks the file at the handle's path
AfterClose(f, ip, p) == IF ip THEN Unlink(f, p) ELSE f

\* what the reader opened on the source sees once the target is open for
\* writing: nothing when the target is the source itself, truncated by then
SourceAsRead(f, p, t) == IF t = p THEN Empty ELSE f[p]

\* Compression.compress up to the streaming (compression.py:193-207)
Compress(a, tgt, ip) ==
    /\ Begin([name |-> "compress", algo |-> a, tgt |-> tgt, ip |-> ip])
    /\ UNCHANGED <<fs, dirs, path, atype>>
    /\ IF ~Exists(fs, path)
       THEN Finish(Err("FailedToCompressFile", "FileNotFoundError"))
       ELSE IF IsCompressed(fs, path, a)
       THEN Finish(Err("FailedToCompressFile", "FileAlreadyCompressed"))
       ELSE IF a \notin CompressionType
       THEN Finish(Err("FailedToCompressFile", "CompressionTypeNotSupported"))
       ELSE /\ pc' = "c_open"
            /\ UNCHANGED <<res, work>>

\* compression.py:209-214: the source is opened, then the codec opens the
\* target for writing, creating or truncating it
COpen ==
    /\ pc = "c_open"
    /\ Step
    /\ UNCHANGED <<dirs, path>>
    /\ \/ /\ fs' = Put(fs, CompressTarget(path, op.algo, op.tgt), Empty)
          /\ pc' = "c_copy"
          /\ UNCHANGED <<res, work>>
       \/ /\ Finish(Err("FailedToCompressFile", "OpenFailed"))
          /\ UNCHANGED fs

\* compression.py:215-217: the copy through the codec and the close of the
\* target, or a failed write that leaves an empty or torn target behind
CCopy ==
    /\ pc = "c_copy"
    /\ Step
    /\ UNCHANGED <<dirs, path>>
    /\ LET t == CompressTarget(path, op.algo, op.tgt)
       IN  \/ /\ fs' = Put(fs, t, Comp(op.algo, SourceAsRead(fs, path, t)))
              /\ pc' = "c_closed"
              /\ UNCHANGED <<res, work>>
           \/ /\ \E c \in {Empty, Torn(op.algo)} : fs' = Put(fs, t, c)
              /\ Finish(Err("FailedToCompressFile", "WriteFailed"))

\* compression.py:219-223
CFinish ==
    /\ pc = "c_closed"
    /\ Step
    /\ UNCHANGED dirs
    /\ LET t == CompressTarget(path, op.algo, op.tgt)
       IN  /\ fs' = AfterClose(fs, op.ip, path)
           /\ path' = PathAfter(op.ip, path, t)
           /\ Finish(Ok(<<path'>>))

\* Compression.decompress up to the streaming (compression.py:146-156)
Decompress(a, tgt, ip) ==
    /\ Begin([name |-> "decompress", algo |-> a, tgt |-> tgt, ip |-> ip])
    /\ UNCHANGED <<fs, dirs, path, atype>>
    /\ IF ~Exists(fs, path)
       THEN Finish(Err("FailedToDecompressFile", "FileNotFoundError"))
       ELSE IF ~IsCompressed(fs, path, a)
       THEN Finish(Err("FailedToDecompressFile", "FileNotCompressed"))
       ELSE IF a \notin CompressionType
       THEN Finish(Err("FailedToDecompressFile", "CompressionTypeNotSupported"))
       ELSE /\ pc' = "d_open"
            /\ UNCHANGED <<res, work>>

\* compression.py:158-161: the codec opens the source lazily, then the target
\* is opened for writing, created or truncated
DOpen ==
    /\ pc = "d_open"
    /\ Step
    /\ UNCHANGED <<dirs, path>>
    /\ \/ /\ fs' = Put(fs, DecompressTarget(path, op.tgt), Empty)
          /\ pc' = "d_copy"
          /\ UNCHANGED <<res, work>>
       \/ /\ Finish(Err("FailedToDecompressFile", "OpenFailed"))
          /\ UNCHANGED fs

\* compression.py:162: the copy out of the codec.  A source truncated by the
\* open of the target reads as an empty stream: gzip decodes it to nothing,
\* the other codecs raise EOFError.
DCopy ==
    /\ pc = "d_copy"
    /\ Step
    /\ UNCHANGED <<dirs, path>>
    /\ LET t == DecompressTarget(path, op.tgt)
           src == SourceAsRead(fs, path, t)
       IN  \/ /\ src.k = "comp"
              /\ fs' = Put(fs, t, src.inner)
              /\ pc' = "d_closed"
              /\ UNCHANGED <<res, work>>
           \/ /\ src = Empty
              /\ IF op.algo = "gz"
                 THEN /\ pc' = "d_closed"
                      /\ UNCHANGED <<fs, res, work>>
                 ELSE /\ Finish(Err("FailedToDecompressFile", "EOFError"))
                      /\ UNCHANGED fs
           \/ /\ src.k = "torn"
              /\ fs' = Put(fs, t, Torn(NoType))
              /\ Finish(Err("FailedToDecompressFile", "EOFError"))
           \/ /\ \E c \in {Empty, Torn(NoType)} : fs' = Put(fs, t, c)
              /\ Finish(Err("FailedToDecompressFile", "WriteFailed"))

\* compression.py:164-168
DFinish ==
    /\ pc = "d_closed"
    /\ Step
    /\ UNCHANGED dirs
    /\ LET t == DecompressTarget(path, op.tgt)
       IN  /\ fs' = AfterClose(fs, op.ip, path)
           /\ path' = PathAfter(op.ip, path, t)
           /\ Finish(Ok(<<path'>>))

(* ----------------------------- size queries ---------------------------- *)

RECURSIVE SumSizes(_)
RECURSIVE Size(_)
\* Path.stat().st_size of a file holding c.  The codecs and containers are
\* libraries: a compressed stream is taken to be a header and half its input.
Size(c) ==
    CASE c.k = "plain" -> c.d
      [] c.k = "comp" -> 20 + (Size(c.inner) \div 2)
      [] c.k = "torn" -> 10
      [] c.k = "dir" -> 0
      [] c.k = "arch" -> 100 + SumSizes(c.mem)

SumSizes(ms) ==
    IF ms = <<>> THEN 0 ELSE 50 + Size(Head(ms).data) + SumSizes(Tail(ms))

\* Compression.uncompressed_size: the call's outcome
UncompressedSizeOf(f, p, a) ==
    IF ~Exists(f, p)
    THEN Err("FailedToGetUncompressedSize", "FileNotFoundError")
    ELSE IF ~IsCompressed(f, p, a) THEN Ok(<<Size(f[p])>>)
    ELSE IF a \notin CompressionType \/ f[p].k # "comp"
    THEN Err("FailedToGetUncompressedSize", "FailedToDecompressFile")
    ELSE Ok(<<Size(f[p].inner)>>)

\* Compression.compressed_size with compression_level lvl, <<>> for None
CompressedSizeOf(f, p, a, lvl) ==
    IF ~Exists(f, p)
    THEN Err("FailedToGetCompressedSize", "FileNotFoundError")
    ELSE IF IsCompressed(f, p, a) THEN Ok(<<Size(f[p])>>)
    ELSE IF lvl = <<>>
    THEN Err("FailedToGetCompressedSize", "ValueError")
    ELSE IF a \notin CompressionType
    THEN Err("FailedToGetCompressedSize", "FailedToCompressFile")
    ELSE Ok(<<Size(Comp(a, f[p]))>>)

\* round(u / c, 2) in hundredths, ties to the even hundredth
Ratio100(u, c) ==
    LET q == (100 * u) \div c
        r == (100 * u) % c
    IN  IF 2 * r < c THEN q
        ELSE IF 2 * r > c THEN q + 1
        ELSE IF q % 2 = 0 THEN q ELSE q + 1

\* Compression.compression_ratio: uncompressed_size, then compressed_size
\* called without a level (compression.py:116-123); their errors pass through
CompressionRatioOf(f, p, a) ==
    LET u == UncompressedSizeOf(f, p, a)
        c == CompressedSizeOf(f, p, a, <<>>)
    IN  IF ~u.ok THEN u
        ELSE IF ~c.ok THEN c
        ELSE Ok(<<[ratio100 |-> Ratio100(u.ret[1], c.ret[1])]>>)

Query(o, r) ==
    /\ Begin(o)
    /\ UNCHANGED <<fs, dirs, path, atype>>
    /\ Finish(r)

\* tempfile.NamedTemporaryFile() of a size query (compression.py:66, 98)
SizeScratch == P(TmpDir, <<"tmpfile">>)

\* a scratch file that outlives the query
ScratchLeft(f) == f

\* NamedTemporaryFile.__exit__: the scratch file is closed and unlinked
ScratchClosed(f) == Unlink(f, SizeScratch)

\* whether the query o runs a codec pass: uncompressed_size when the file is
\* compressed under the algorithm (compression.py:63-66), compressed_size
\* when it is not and a level was given (compression.py:90-98)
NeedsPass(f, p, o) ==
    IF o.name = "uncompressed_size"
    THEN IsCompressed(f, p, o.algo)
    ELSE ~IsCompressed(f, p, o.algo) /\ o.lvl # <<>>

SizeOutcome(f, p, o) ==
    IF o.name = "uncompressed_size"
    THEN UncompressedSizeOf(f, p, o.algo)
    ELSE CompressedSizeOf(f, p, o.algo, o.lvl)

\* a size query up to the creation of its scratch file
SizeQuery(o) ==
    /\ Begin(o)
    /\ UNCHANGED <<dirs, path, atype>>
    /\ IF ~Exists(fs, path) \/ ~NeedsPass(fs, path, o)
       THEN /\ Finish(SizeOutcome(fs, path, o))
            /\ UNCHANGED fs
       ELSE /\ fs' = Put(fs, SizeScratch, Empty)
            /\ pc' = "sz_pass"
            /\ UNCHANGED <<res, work>>

\* the trial pass into the scratch file, its measurement, and the removal of
\* the scratch file on the way out (compression.py:66-71, 98-104)
SizePass ==
    /\ pc = "sz_pass"
    /\ UNCHANGED <<atype, op, pre, prev, nops, e2e>>
    /\ UNCHANGED <<dirs, path>>
    /\ fs' = ScratchClosed(fs)
    /\ Finish(SizeOutcome(fs', path, op))

UncompressedSize(a) == SizeQuery([name |-> "uncompressed_size", algo |-> a])

CompressedSize(a, lvl) ==
    SizeQuery([name |-> "compressed_size", algo |-> a, lvl |-> lvl])

CompressionRatio(a) ==
    Query([name |-> "compression_ratio", algo |-> a], CompressionRatioOf(fs, path, a))

\* Compression.is_compressed as a public call (compression.py:225-238): it
\* carries no decorator and catches ValueError alone, so the
\* FileNotFoundError of the sniffer on an absent path passes through
IsCompressedOf(f, p, a) ==
    IF ~Exists(f, p) THEN Raised("FileNotFoundError")
    ELSE Ok(<<IsCompressed(f, p, a)>>)

IsCompressedQuery(a) ==
    Query([name |-> "is_compressed", algo |-> a], IsCompressedOf(fs, path, a))

(* -------------------------- the specifications ------------------------- *)

TargetT == P(WorkDir, <<"target">>)

CompressedFile(a) == P(WorkDir, <<"test_file", "txt", a>>)

Blob == P(WorkDir, <<"blob">>)

\* Compression(path) on an existing file (conftest.py txt_file and
\* compressed_file), or on a compressed file whose name has no suffix
InitCompression ==
    /\ \/ path = SrcA /\ fs = BaseFs
       \/ \E a \in CompressionType :
             path = CompressedFile(a) /\ fs = Put(BaseFs, path, Comp(a, Plain(1)))
       \/ path = Blob /\ fs = Put(BaseFs, path, Comp("gz", Plain(2)))
    /\ atype = NoType
    /\ InitCommon

CompressionSteps ==
    \/ COpen
    \/ CCopy
    \/ CFinish
    \/ DOpen
    \/ DCopy
    \/ DFinish

\* a caller's compress and decompress calls: default target, another file,
\* or the file itself
CompressionCalls(max) ==
    \/ \E a \in CompressionType, tgt \in {<<>>, <<TargetT>>, <<path>>}, ip \in BOOLEAN :
          nops < max /\ Compress(a, tgt, ip)
    \/ \E a \in CompressionType, tgt \in {<<>>, <<TargetT>>, <<path>>}, ip \in BOOLEAN :
          nops < max /\ Decompress(a, tgt, ip)

NextCompression ==
    \/ CompressionCalls(MaxCompressionOps)
    \/ CompressionSteps

SpecCompression == InitCompression /\ [][NextCompression]_vars

\* a single compress or decompress call on a fresh handle
NextCall ==
    \/ CompressionCalls(MaxCallOps)
    \/ CompressionSteps

SpecCall == InitCompression /\ [][NextCall]_vars

\* an algorithm name outside CompressionType (compressions/models.py)
UnsupportedAlgorithms == {"zip"}

Algorithms == CompressionType \cup UnsupportedAlgorithms

\* the size queries, between compress and decompress calls on default targets
NextSizes ==
    \/ \E a \in Algorithms, ip \in BOOLEAN :
          nops < MaxSizeOps /\ Compress(a, <<>>, ip)
    \/ \E a \in Algorithms, ip \in BOOLEAN :
          nops < MaxSizeOps /\ Decompress(a, <<>>, ip)
    \/ \E a \in Algorithms :
          nops < MaxSizeOps /\ UncompressedSize(a)
    \/ \E a \in Algorithms, lvl \in {<<>>, <<9>>} :
          nops < MaxSizeOps /\ CompressedSize(a, lvl)
    \/ \E a \in Algorithms :
          nops < MaxSizeOps /\ CompressionRatio(a)
    \/ \E a \in Algorithms :
          nops < MaxSizeOps /\ IsCompressedQuery(a)
    \/ SizePass
    \/ CompressionSteps

SpecSizes == InitCompression /\ [][NextSizes]_vars

\* FilePack(path): both constructors run on the one path; the object exists
\* when at least one of them succeeded (filepack.py:10-27)
InitPack ==
    /\ \E t \in ArchiveType :
          /\ path = ArchivePath(t)
          /\ \/ fs = BaseFs
             \/ fs = Put(BaseFs, path, Arch(t, <<MemA, MemB>>))
    /\ atype = ArchiveInit(fs, path)
    /\ atype # NoType \/ Exists(fs, path)
    /\ InitCommon

\* the facade is driven along the end-to-end scenario: any call may be
\* made, and a call that leaves the scenario is the last one
OnScenario == nops < MaxPackOps /\ e2e < 5

NextPack ==
    \/ OnScenario /\ AddMember(SrcA, FALSE)
    \/ \E ip \in BOOLEAN :
          OnScenario /\ ExtractMember(Rel(SrcA.name), OutDir, ip)
    \/ OnScenario /\ RemoveMember(MemA.name)
    \/ \E a \in CompressionType :
          OnScenario /\ IsCompressedQuery(a)
    \/ \E a \in CompressionType :
          OnScenario /\ UncompressedSize(a)
    \/ \E a \in CompressionType, lvl \in {<<>>, <<9>>} :
          OnScenario /\ CompressedSize(a, lvl)
    \/ OnScenario /\ ReadType(MemA.name)
    \/ \E a \in CompressionType, ip \in BOOLEAN :
          OnScenario /\ Compress(a, <<Suffixed(path, a)>>, ip)
    \/ \E a \in CompressionType, ip \in BOOLEAN :
          OnScenario /\ Decompress(a, <<P(path.dir, Stem(path.name))>>, ip)
    \/ RmExtract
    \/ RmOpenNew
    \/ RmAdd
    \/ RmRename
    \/ TypeSniff
    \/ SizePass
    \/ CompressionSteps

SpecPack == InitPack /\ [][NextPack]_vars

Init == InitPack

Next == NextPack

Spec == Init /\ [][Next]_vars

(* ------------------------- claims: the archive ------------------------- *)

Idle(name) == pc = "idle" /\ op.name = name

InRemove == pc \in {"rm_extract", "rm_build"}

OutsideScratch(f) == [q \in {q \in DOMAIN f : ~IsPrefix(TmpDir, q.dir)} |-> f[q]]

\* C1: while remove_member runs, up to its rename, every file outside the
\* scratch directory, the archive included, is what it was when the call
\* began; and when the call fails the archive file and its listing are what
\* they were before the call.
C1_OriginalUntouchedUntilRename ==
    /\ (op.name = "remove_member" /\ InRemove) =>
          /\ OutsideScratch(fs) = pre.fs
          /\ CleanupDirs(dirs) = pre.dirs
    /\ (Idle("remove_member") /\ ~res.ok) =>
          /\ fs = pre.fs
          /\ GetMembers(fs, path) = GetMembers(pre.fs, path)

\* a rebuild that had already added a member to the new container failed
C1_Witness ==
    /\ Idle("remove_member")
    /\ ~res.ok
    /\ res.cause = "AddFailed"
    /\ Len(GetMembers(fs, path)) = 3

BaseNamesDistinct(ms) ==
    \A i, j \in 1..Len(ms) : i # j => ms[i].name.name # ms[j].name.name

\* C2: a successful remove_member(n) on an archive whose members have
\* pairwise distinct base names leaves the file in existence, listing the
\* previous names minus n.
C2_RemovalCorrect ==
    (Idle("remove_member") /\ res.ok /\ BaseNamesDistinct(GetMembers(pre.fs, path))) =>
        /\ Exists(fs, path)
        /\ NameSet(GetMembers(fs, path)) = NameSet(GetMembers(pre.fs, path)) \ {op.nm}

\* C3: on an absent archive path, add_member(fileA) then add_member(fileB),
\* of distinct base names, gives a listing of exactly the two base names.
C3_TwoAddsListBaseNames ==
    (/\ Idle("add_member") /\ res.ok
     /\ prev.op.name = "add_member" /\ prev.res.ok
     /\ ~Exists(prev.pre.fs, path)
     /\ prev.op.src.name # op.src.name) =>
        /\ Exists(fs, path)
        /\ Len(GetMembers(fs, path)) = 2
        /\ NameSet(GetMembers(fs, path)) = {Rel(prev.op.src.name), Rel(op.src.name)}

C3_Witness ==
    /\ Idle("add_member") /\ res.ok
    /\ prev.op.name = "add_member" /\ prev.res.ok
    /\ ~Exists(prev.pre.fs, path)
    /\ op.src = SrcB
    /\ atype = "7z"

\* C4: after add_member(src), extract_member(basename(src), dir) writes
\* dir/basename(src) with the content src had when added; the member then
\* stays in the archive when in_place is false, and is gone, every other
\* member still being there, when in_place is true.
C4_ExtractRoundTrip ==
    (/\ Idle("extract_member") /\ res.ok
     /\ prev.op.name = "add_member" /\ prev.res.ok
     /\ op.nm = Rel(prev.op.src.name)) =>
        /\ Exists(fs, Join(op.t, op.nm))
        /\ fs[Join(op.t, op.nm)] = prev.pre.fs[prev.op.src]
        /\ ~op.ip => MemberExist(fs, path, op.nm)
        /\ op.ip =>
              /\ ~MemberExist(fs, path, op.nm)
              /\ \A n \in NameSet(GetMembers(pre.fs, path)) \ {op.nm} :
                    MemberExist(fs, path, n)

(* ----------------------- claims: the unified object -------------------- *)

\* a call that ended on an injected I/O failure of the file system
IOFault == ~res.ok /\ res.cause \in {"OpenFailed", "WriteFailed", "PermissionError"}

\* C5: along the end-to-end scenario on one unified object over an absent
\* path P with an archive suffix, barring a file-system failure:
\* add_member(hello.txt) gives one member; compress(target = P + suffix,
\* in_place) leaves P absent and the target present and compressed;
\* decompress(target = P, in_place) leaves P present and not compressed;
\* extract_member(hello.txt, dir) then leaves exactly one file in dir, with
\* the content of hello.txt.
C5_EndToEnd ==
    LET PP == ArchivePath(atype)
    IN  /\ (e2e = 1 /\ pc = "idle" /\ ~IOFault) =>
              /\ res.ok
              /\ Len(GetMembers(fs, path)) = 1
        /\ (e2e = 2 /\ pc = "idle" /\ ~IOFault) =>
              /\ res.ok
              /\ ~Exists(fs, PP)
              /\ path = Suffixed(PP, op.algo)
              /\ Exists(fs, path)
              /\ IsCompressed(fs, path, op.algo)
        /\ (e2e = 3 /\ pc = "idle" /\ ~IOFault) =>
              /\ res.ok
              /\ path = PP
              /\ Exists(fs, PP)
              /\ ~IsCompressed(fs, PP, op.algo)
        /\ (e2e = 4 /\ pc = "idle") =>
              /\ res.ok
              /\ FilesUnder(fs, OutDir) = {Join(OutDir, Rel(SrcA.name))}
              /\ fs[Join(OutDir, Rel(SrcA.name))] = BaseFs[SrcA]

C5_Witness ==
    /\ e2e = 4 /\ pc = "idle" /\ res.ok
    /\ atype = "7z"
    /\ prev.op.name = "decompress" /\ prev.op.algo = "lz4"

(* ---------------------- claims: the compression facade ---------------- *)

InCall == pc \in {"c_open", "c_copy", "c_closed", "d_open", "d_copy", "d_closed"}

\* the target of the call in progress or just ended, from the path it began on
TargetOf(o, p) ==
    IF o.name = "compress" THEN CompressTarget(p, o.algo, o.tgt)
    ELSE DecompressTarget(p, o.tgt)

\* what a trial compression and a trial decompression measure
ExpectedRatio(c, a) ==
    IF Sniff(c) = a
    THEN Ratio100(Size(c.inner), Size(c))
    ELSE Ratio100(Size(c), Size(Comp(a, c)))

\* C6: compression_ratio(algo) on an existing file succeeds, whether or not
\* the file is compressed under algo, and returns uncompressed size over
\* compressed size rounded to two decimals.
C6_RatioSucceeds ==
    (Idle("compression_ratio") /\ Exists(fs, path) /\ fs[path].k \in {"plain", "comp"}) =>
        /\ res.ok
        /\ res.ret = <<[ratio100 |-> ExpectedRatio(fs[path], op.algo)]>>

\* C7: compress(algo) on an existing file fails with FileAlreadyCompressed
\* exactly when the file at the handle's path sniffs as algo, and then no
\* file is created or changed; a compress(algo, in_place=false) that follows
\* a successful compress(algo, in_place=false) succeeds too, barring a
\* file-system failure; a compress(algo) that follows a successful
\* compress(algo, in_place=true) fails.
C7_AlreadyCompressed ==
    /\ (Idle("compress") /\ Exists(pre.fs, pre.path)) =>
          /\ (res.cause = "FileAlreadyCompressed") <=> (Sniff(pre.fs[pre.path]) = op.algo)
          /\ (res.cause = "FileAlreadyCompressed") =>
                ~res.ok /\ fs = pre.fs /\ path = pre.path
    /\ (/\ Idle("compress") /\ prev.op.name = "compress" /\ prev.res.ok
        /\ prev.op.algo = op.algo) =>
          /\ (~prev.op.ip /\ ~op.ip /\ ~IOFault) => res.ok
          /\ prev.op.ip => ~res.ok

\* C8: decompress(algo) on a file that does not sniff as algo fails with
\* FileNotCompressed, creates and truncates nothing, deletes nothing and
\* leaves the handle's path as it was, whatever in_place and the target.
C8_NotCompressedRejected ==
    (/\ op.name = "decompress" /\ Exists(pre.fs, pre.path)
     /\ Sniff(pre.fs[pre.path]) # op.algo) =>
        /\ pc = "idle"
        /\ ~res.ok
        /\ res.kind = "FailedToDecompressFile"
        /\ res.cause = "FileNotCompressed"
        /\ fs = pre.fs
        /\ dirs = pre.dirs
        /\ path = pre.path

\* an in-place decompress under another algorithm than the file's
C8_Witness ==
    /\ Idle("decompress") /\ op.ip
    /\ op.tgt = <<TargetT>>
    /\ Sniff(pre.fs[pre.path]) \in CompressionType \ {op.algo}
    /\ res.cause = "FileNotCompressed"

\* C9: a successful decompress(algo) of the file a successful compress(algo)
\* produced writes the content the source had before the compress; and when
\* both calls were in place on default targets, the handle's path and the
\* file's content are those from before the two calls.
C9_RoundTrip ==
    (/\ Idle("decompress") /\ res.ok
     /\ prev.op.name = "compress" /\ prev.res.ok
     /\ prev.op.algo = op.algo
     /\ pre.path = TargetOf(prev.op, prev.pre.path)) =>
        LET before == prev.pre.fs[prev.pre.path]
            out == TargetOf(op, pre.path)
        IN  /\ Exists(fs, out)
            /\ fs[out] = before
            /\ (prev.op.tgt = <<>> /\ op.tgt = <<>> /\ prev.op.ip /\ op.ip) =>
                  /\ path = prev.pre.path
                  /\ fs[path] = before

\* C10: for compress and decompress with a target other than the source:
\* while the call runs, and after it failed, the source is in place with
\* its bytes and the handle's path is the source; after a successful
\* in-place call the source is gone, the target is there, complete, and is
\* the handle's path; after a successful call not in place both files are
\* there and the handle's path is the source.
C10_InPlaceMove ==
    LET S == pre.path
        T == TargetOf(op, pre.path)
        done == IF op.name = "compress" THEN Comp(op.algo, pre.fs[S])
                ELSE pre.fs[S].inner
    IN  (op.name \in {"compress", "decompress"} /\ Exists(pre.fs, S) /\ T # S) =>
           /\ (InCall \/ (pc = "idle" /\ ~res.ok)) =>
                 /\ Exists(fs, S)
                 /\ fs[S] = pre.fs[S]
                 /\ path = S
           /\ (pc = "idle" /\ res.ok /\ op.ip) =>
                 /\ ~Exists(fs, S)
                 /\ Exists(fs, T)
                 /\ fs[T] = done
                 /\ path = T
           /\ (pc = "idle" /\ res.ok /\ ~op.ip) =>
                 /\ Exists(fs, S)
                 /\ Exists(fs, T)
                 /\ path = S

\* an in-place compress whose write failed part-way through
C10_Witness ==
    /\ Idle("compress") /\ op.ip
    /\ res.cause = "WriteFailed"
    /\ fs[TargetOf(op, pre.path)] = Torn(op.algo)
    /\ Exists(fs, pre.path)

\* C11: a successful compress or decompress returns the path of the file it
\* produced, the explicit or default target, whatever in_place.
C11_ReturnsProducedPath ==
    (op.name \in {"compress", "decompress"} /\ pc = "idle" /\ res.ok) =>
        res.ret = <<TargetOf(op, pre.path)>>

(* ---------------------------- construction ----------------------------- *)

\* a constructor that gave up on the first failure
FilePackInitStrict(f, p) ==
    IF ArchiveInit(f, p) = NoType \/ ~Exists(f, p)
    THEN [ok |-> FALSE, kind |-> "ExceptionGroup", cause |-> "",
          ret |-> <<"ValueError", "FileNotFoundError">>]
    ELSE Ok(<<>>)

\* FilePack.__init__ (filepack.py:10-27): the errors of the two constructors
\* are collected, and raised as one group when both failed
FilePackInit(f, p) ==
    LET errors ==
          (IF ArchiveInit(f, p) = NoType THEN <<"ValueError">> ELSE <<>>) \o
          (IF ~Exists(f, p) THEN <<"FileNotFoundError">> ELSE <<>>)
    IN  IF Len(errors) = 2
        THEN [ok |-> FALSE, kind |-> "ExceptionGroup", cause |-> "", ret |-> errors]
        ELSE Ok(<<>>)

\* the file names a caller may construct on, and what may be there
CandidateNames ==
    {<<"test", s>> : s \in ArchiveType \cup {"foo-bar", "gz", "txt"}} \cup {<<"blob">>}

CandidateContents ==
    {Plain(1), Arch("tar", <<>>)}
    \cup {Comp(a, Plain(1)) : a \in CompressionType}
    \cup {Arch(t, <<MemA>>) : t \in ArchiveType}
    \cup {Arch("zip", <<MemA, MemB>>)}

NoPath == P(<<>>, <<>>)

InitConstruct ==
    /\ \/ fs = BaseFs
       \/ \E n \in CandidateNames, c \in CandidateContents :
             fs = Put(BaseFs, P(WorkDir, n), c)
    /\ path = NoPath
    /\ atype = NoType
    /\ dirs = BaseDirs
    /\ pc = "new"
    /\ op = [name |-> "init"]
    /\ res = Ok(<<>>)
    /\ pre = [fs |-> fs, dirs |-> dirs, path |-> path]
    /\ prev = [op |-> [name |-> "none"], res |-> Ok(<<>>), pre |-> pre]
    /\ work = NoWork
    /\ nops = 0
    /\ e2e = 0

\* FilePack(path = p)
Construct(p) ==
    /\ pc = "new"
    /\ op' = [name |-> "FilePack", p |-> p]
    /\ path' = p
    /\ atype' = ArchiveInit(fs, p)
    /\ res' = FilePackInit(fs, p)
    /\ pc' = IF res'.ok THEN "idle" ELSE "failed"
    /\ nops' = nops + 1
    /\ UNCHANGED <<fs, dirs, pre, prev, work, e2e>>

\* the archive calls made on the object once it is constructed
Constructed == pc # "new" /\ nops < 1 + MaxCallOps

NextConstruct ==
    \/ \E n \in CandidateNames : Construct(P(WorkDir, n))
    \/ \E ip \in BOOLEAN :
          Constructed /\ AddMember(SrcA, ip)
    \/ \E nm \in MemberNames, ip \in BOOLEAN :
          Constructed /\ ExtractMember(nm, OutDir, ip)
    \/ \E nm \in MemberNames :
          Constructed /\ RemoveMember(nm)
    \/ \E ip \in BOOLEAN :
          Constructed /\ ExtractAll(OutDir, ip)
    \/ Constructed /\ RemoveAll
    \/ Constructed /\ GetMembersQuery
    \/ \E nm \in MemberNames :
          Constructed /\ GetMemberQuery(nm)
    \/ \E nm \in MemberNames :
          Constructed /\ MemberExistQuery(nm)
    \/ RmExtract
    \/ RmOpenNew
    \/ RmAdd
    \/ RmRename
    \/ XaExtract
    \/ XaFinish

SpecConstruct == InitConstruct /\ [][NextConstruct]_vars

\* C12: FilePack(path) succeeds exactly when one of the two constructors
\* does, that is when the path exists or is absent with the suffix tar, zip
\* or 7z; otherwise it raises one group carrying the two errors, the
\* archive's ValueError and the compression's FileNotFoundError.
C12_ConstructionAggregates ==
    (op.name = "FilePack") =>
        /\ res.ok <=> (ArchiveInit(fs, op.p) # NoType \/ Exists(fs, op.p))
        /\ res.ok <=> (Exists(fs, op.p) \/ Suffix(op.p) \in ArchiveType)
        /\ ~res.ok =>
              /\ res.kind = "ExceptionGroup"
              /\ res.ret = <<"ValueError", "FileNotFoundError">>

C12_Witness ==
    /\ op.name = "FilePack" /\ ~res.ok
    /\ Suffix(op.p) = "foo-bar"
    /\ Exists(fs, P(WorkDir, <<"test", "tar">>))

(* -------------------- claims: frames and failures ---------------------- *)

\* the path the archive operations open (archive.py:40, self._path) and the
\* path the compression operations read (compression.py:34, self._path):
\* on the unified object the two constructors assign the one attribute
ArchiveOpens == path

CompressionReads == path

ArchiveOps == {"add_member", "extract_member", "remove_member", "extract_all"}

CompressionOps == {"compress", "decompress"}

\* C13: on the unified object, a compress or decompress call, whatever
\* in_place, leaves the path the archive operations open as it was, and an
\* archive operation leaves the path the compression operations read as it
\* was.
C13_NoSharedPath ==
    /\ (pc = "idle" /\ op.name \in CompressionOps) => ArchiveOpens = pre.path
    /\ (pc = "idle" /\ op.name \in ArchiveOps) => CompressionReads = pre.path

\* C14: a compress or decompress with in_place = false leaves the file at
\* the handle's path in existence with the bytes it had, during and after
\* the call, whether it succeeds or fails and whatever the target.
C14_SourceUntouched ==
    (op.name \in CompressionOps /\ ~op.ip /\ Exists(pre.fs, pre.path)) =>
        /\ Exists(fs, pre.path)
        /\ fs[pre.path] = pre.fs[pre.path]

\* the member listing of the file at p, when it is a container
MembersAt(f, p) == IF Exists(f, p) /\ f[p].k = "arch" THEN <<f[p].mem>> ELSE <<>>

\* C15: a failed add_member leaves the archive absent if it was absent and
\* with the members it had otherwise; a compress or decompress that failed
\* while streaming leaves no file at its target; a failed
\* extract_member(in_place = true) leaves the archive's members as they were.
C15_NoPartialEffect ==
    /\ (Idle("add_member") /\ ~res.ok) =>
          /\ Exists(fs, path) = Exists(pre.fs, path)
          /\ MembersAt(fs, path) = MembersAt(pre.fs, path)
    /\ (/\ pc = "idle" /\ op.name \in CompressionOps /\ ~res.ok
        /\ res.cause \in {"WriteFailed", "EOFError"}) =>
          ~Exists(fs, TargetOf(op, pre.path))
    /\ (Idle("extract_member") /\ op.ip /\ ~res.ok) =>
          /\ Exists(fs, path) = Exists(pre.fs, path)
          /\ MembersAt(fs, path) = MembersAt(pre.fs, path)

\* the error kind each decorated operation re-raises as (reraise_as)
OwnKind ==
    [add_member |-> "FailedToAddNewMemberToArchive",
     extract_member |-> "FailedToExtractArchiveMember",
     remove_member |-> "FailedToRemoveArchiveMember",
     extract_all |-> "FailedToExtractArchiveMembers",
     compress |-> "FailedToCompressFile",
     decompress |-> "FailedToDecompressFile",
     uncompressed_size |-> "FailedToGetUncompressedSize",
     compressed_size |-> "FailedToGetCompressedSize"]

HighLevelKinds == {OwnKind[n] : n \in DOMAIN OwnKind}

\* C16: a public operation that fails raises an error of a high-level kind,
\* its own where it has one, with the original error as its cause; no
\* lower-level error reaches the caller.
C16_ErrorsWrapped ==
    (pc = "idle" /\ ~res.ok /\ op.name # "FilePack") =>
        /\ res.kind \in HighLevelKinds
        /\ res.cause # ""
        /\ op.name \in DOMAIN OwnKind => res.kind = OwnKind[op.name]

\* C17: extract_member(name, dir) and remove_member(name) on a name that
\* is no member of the archive, the archive being absent or readable, fail
\* at once with ArchiveMemberDoesNotExist under the operation's own kind:
\* no file or directory is created, the archive is not created or changed.
C17_MissingMemberRejected ==
    (/\ op.name \in {"extract_member", "remove_member"}
     /\ ~ListingFails(pre.fs, pre.path, atype)
     /\ ~HasName(GetMembers(pre.fs, pre.path), op.nm)) =>
        /\ pc = "idle"
        /\ ~res.ok
        /\ res.kind = OwnKind[op.name]
        /\ res.cause = "ArchiveMemberDoesNotExist"
        /\ fs = pre.fs
        /\ dirs = pre.dirs

\* an in-place extraction asked of an archive that does not exist
C17_Witness ==
    /\ Idle("extract_member") /\ op.ip
    /\ ~Exists(pre.fs, pre.path)
    /\ res.cause = "ArchiveMemberDoesNotExist"
    /\ OutDir \notin dirs

\* C18: add_member of a source path that does not exist fails at once with
\* FileNotFoundError under the operation's kind: no file is created,
\* changed or deleted, whatever in_place, so an absent archive stays absent
\* and an existing one keeps its members.
C18_MissingSourceRejected ==
    (op.name = "add_member" /\ ~Exists(pre.fs, op.src)) =>
        /\ pc = "idle"
        /\ ~res.ok
        /\ res.kind = OwnKind[op.name]
        /\ res.cause = "FileNotFoundError"
        /\ fs = pre.fs
        /\ dirs = pre.dirs
        /\ MembersAt(fs, path) = MembersAt(pre.fs, path)

\* a source that does not exist, added in place to an absent archive
C18_Witness ==
    /\ Idle("add_member") /\ op.ip
    /\ op.src = SrcMissing
    /\ ~Exists(fs, path)
    /\ res.cause = "FileNotFoundError"


\* C19: extract_all on an absent archive, or on an existing archive that
\* lists no member, returns without an error for both values of in_place:
\* no file is written, no directory is created, and the archive is as it was
\* before the call (an existing empty archive is not deleted)
C19_ExtractAllNoMembers ==
    (/\ op.name = "extract_all"
     /\ ~ListingFails(pre.fs, path, atype)
     /\ GetMembers(pre.fs, path) = <<>>) =>
        /\ pc = "idle"
        /\ res.ok
        /\ fs = pre.fs
        /\ dirs = pre.dirs
        /\ Exists(fs, path) = Exists(pre.fs, path)

\* an in-place extract_all returned on an existing archive without members
C19_Witness ==
    /\ Idle("extract_all") /\ op.ip /\ res.ok
    /\ Exists(fs, path)
    /\ fs[path] = Arch(atype, <<>>)

\* the member m of an archive is on disk below directory t
Extracted(f, ds, m, t) ==
    IF m.isdir THEN t \o EntryDir(m) \in ds ELSE Exists(f, Join(t, m.name))

\* C20: extract_all(in_place) on an archive with members deletes the archive
\* only after every member was extracted and the session ended, and
\* add_member(in_place) deletes the source only after the member was written;
\* when either fails the archive / the source still exists unchanged, and
\* without in_place neither file is deleted
C20_DeleteAfterSuccess ==
    /\ (op.name = "extract_all" /\ GetMembers(pre.fs, path) # <<>>) =>
          /\ (pc = "xa_extract" \/ ~res.ok \/ ~op.ip) =>
                Exists(fs, path) /\ fs[path] = pre.fs[path]
          /\ (pc = "idle" /\ res.ok /\ op.ip) =>
                /\ ~Exists(fs, path)
                /\ \A i \in 1..Len(pre.fs[path].mem) :
                      Extracted(fs, dirs, pre.fs[path].mem[i], op.t)
    /\ (op.name = "add_member" /\ Exists(pre.fs, op.src)) =>
          /\ (~res.ok \/ ~op.ip) =>
                Exists(fs, op.src) /\ fs[op.src] = pre.fs[op.src]
          /\ (res.ok /\ op.ip) =>
                /\ ~Exists(fs, op.src)
                /\ MemberExist(fs, path, Rel(op.src.name))

\* an in-place extract_all failed after it extracted a first member
C20_Witness ==
    /\ Idle("extract_all") /\ op.ip /\ ~res.ok
    /\ res.cause = "ExtractFailed"
    /\ Exists(fs, path)
    /\ Exists(fs, Join(op.t, pre.fs[path].mem[1].name))


\* C21: on an absent archive members() returns the empty sequence,
\* member(name) returns none and member_exist(name) returns false, without
\* an error and without creating the file; on an existing archive
\* member(name) returns none exactly when no listed member has that name,
\* and member_exist agrees with it
C21_AbsentArchiveQueries ==
    /\ (Idle("get_members") /\ ~Exists(pre.fs, path)) =>
          res = Ok(<<>>) /\ fs = pre.fs /\ dirs = pre.dirs
    /\ (Idle("get_member") /\ ~Exists(pre.fs, path)) =>
          res = Ok(<<>>) /\ fs = pre.fs /\ dirs = pre.dirs
    /\ (Idle("member_exist") /\ ~Exists(pre.fs, path)) =>
          res = Ok(<<FALSE>>) /\ fs = pre.fs /\ dirs = pre.dirs
    /\ (Idle("get_member") /\ Exists(pre.fs, path) /\ res.ok) =>
          /\ (res.ret = <<>>) <=> (op.nm \notin NameSet(GetMembers(fs, path)))
          /\ res.ret # <<>> => res.ret[1].name = op.nm
    /\ (Idle("member_exist") /\ Exists(pre.fs, path) /\ res.ok) =>
          res.ret[1] = (op.nm \in NameSet(GetMembers(fs, path)))

\* member(name) was asked of an absent archive after an earlier call
C21_Witness ==
    /\ Idle("get_member") /\ ~Exists(fs, path)
    /\ res = Ok(<<>>)
    /\ prev.op.name = "member_exist" /\ prev.res = Ok(<<FALSE>>)


\* C22: remove_all() that returns has deleted the archive file when there
\* was one and changed nothing else, and is a no-op without error when there
\* was none; afterwards the path does not exist and members() is empty.  An
\* add_member that follows it on the same handle re-creates the archive, in
\* the handle's format, with exactly the one added member.
C22_RemoveAllThenAdd ==
    /\ (Idle("remove_all") /\ res.ok) =>
          /\ ~Exists(fs, path)
          /\ fs = Unlink(pre.fs, path)
          /\ dirs = pre.dirs
          /\ GetMembersOf(fs, path, atype) = Ok(<<>>)
    /\ (Idle("remove_all") /\ ~Exists(pre.fs, path)) =>
          res.ok /\ fs = pre.fs
    /\ (/\ Idle("add_member") /\ res.ok
        /\ prev.op.name = "remove_all" /\ prev.res.ok) =>
          /\ CanRead(fs, path, atype)
          /\ Len(GetMembers(fs, path)) = 1
          /\ GetMembers(fs, path)[1].name = Rel(op.src.name)
          /\ GetMembers(fs, path)[1].data = pre.fs[op.src]

\* an existing archive was deleted by remove_all and re-created by an add
C22_Witness ==
    /\ Idle("add_member") /\ res.ok
    /\ prev.op.name = "remove_all" /\ prev.res.ok
    /\ Exists(prev.pre.fs, path)
    /\ Len(GetMembers(prev.pre.fs, path)) = 3
    /\ Len(GetMembers(fs, path)) = 1


AlgorithmOps == {"compress", "decompress", "uncompressed_size", "compressed_size"}

\* the kinds under which the unsupported-algorithm error reaches the caller
\* of a size query, which wraps the error of the pass it runs
UnsupportedCauses ==
    {"CompressionTypeNotSupported", "FailedToCompressFile", "FailedToDecompressFile"}

\* C23: compress, decompress, uncompressed_size and compressed_size called
\* on an existing file with an algorithm outside the closed set fail with
\* the unsupported-algorithm error, and no file is created, truncated or
\* deleted
C23_UnsupportedAlgorithm ==
    (/\ op.name \in AlgorithmOps
     /\ op.algo \notin CompressionType
     /\ Exists(pre.fs, pre.path)) =>
        /\ pc = "idle"
        /\ ~res.ok
        /\ res.cause \in UnsupportedCauses
        /\ fs = pre.fs


\* the container format the bytes c carry a magic number of, NoType for
\* anything that is no tar, zip or 7z container
FormatOfBytes(c) ==
    IF c.k = "arch" /\ ~(c.fmt = "tar" /\ c.mem = <<>>) THEN c.fmt ELSE NoType

\* the backend a construction on path op.p selected, right after it
C24_Selected ==
    (op.name = "FilePack") =>
        /\ Exists(fs, op.p) => atype = FormatOfBytes(fs[op.p])
        /\ ~Exists(fs, op.p) =>
              atype = IF Suffix(op.p) \in ArchiveType THEN Suffix(op.p) ELSE NoType
        /\ atype \in ArchiveType \cup {NoType}

\* C24: construction on an existing path selects the backend from the
\* sniffed content alone and on an absent path from the suffix; a sniff
\* result or suffix outside {tar, zip, 7z} selects no backend (the Archive
\* construction fails); and no later call changes the selected format,
\* whatever it writes at the path
C24_BackendFromContent ==
    /\ []C24_Selected
    /\ [][pc # "new" => atype' = atype]_vars

\* tar bytes named test.zip were given the tar backend, and a later add_member
\* appended to them as a tar
C24_Witness ==
    /\ Idle("add_member") /\ res.ok
    /\ Suffix(path) = "zip"
    /\ atype = "tar"
    /\ fs[path].fmt = "tar"
    /\ Len(fs[path].mem) = 2


\* what the sniffer makes of the bytes c of a member
SniffedType(c) == IF Sniff(c) # NoType THEN Sniff(c) ELSE UnknownFileType

\* C27: a read of a Member's type, made while the archive is readable and
\* lists the member, re-extracts the member into a scratch location and
\* returns the format sniffed from its bytes (gz for a gzip stream), and
\* 'Unknown File Type' only when the bytes are not recognised
C27_TypeSniffed ==
    (/\ Idle("type")
     /\ CanRead(pre.fs, path, atype)
     /\ MemberExist(pre.fs, path, op.nm)) =>
        /\ res.ok
        /\ res.ret = <<SniffedType(LastNamed(GetMembers(pre.fs, path), op.nm).data)>>


SizeOps == {"uncompressed_size", "compressed_size"}

\* C29: uncompressed_size and compressed_size leave the handle's path and
\* the source's bytes as they were, also while their trial pass runs; when
\* they return, with a size or with an error, every file is as before the
\* call and the scratch file is gone; and when the file is not compressed
\* under the algorithm (uncompressed_size) or is compressed under it
\* (compressed_size) they return the file's own size at once, with no pass
C29_SizeQueriesPure ==
    (op.name \in SizeOps) =>
        /\ path = pre.path
        /\ Exists(pre.fs, path) =>
              Exists(fs, path) /\ fs[path] = pre.fs[path]
        /\ pc = "idle" =>
              /\ fs = pre.fs
              /\ dirs = pre.dirs
              /\ ~Exists(fs, SizeScratch)
        /\ (/\ Exists(pre.fs, path)
            /\ IF op.name = "uncompressed_size"
               THEN ~IsCompressed(pre.fs, path, op.algo)
               ELSE IsCompressed(pre.fs, path, op.algo)) =>
              /\ pc = "idle"
              /\ res = Ok(<<Size(pre.fs[path])>>)

\* uncompressed_size returned the size measured by a pass over a compressed
\* file, which differs from the file's own size
C29_Witness ==
    /\ Idle("uncompressed_size") /\ res.ok
    /\ IsCompressed(fs, path, op.algo)
    /\ res.ret # <<Size(fs[path])>>
    /\ ~Exists(fs, SizeScratch)


\* the container, codec and file sessions a call holds open at each of its
\* steps, after the with blocks of archive.py, compression.py and
\* archives/models.py
OpenSessions ==
    CASE pc = "rm_build" -> {"new container"}
      [] pc = "xa_extract" -> {"container"}
      [] pc = "ty_sniff" -> {"container"}
      [] pc = "c_copy" -> {"source", "codec"}
      [] pc = "c_closed" -> {"source"}
      [] pc = "d_copy" -> {"codec", "target"}
      [] pc = "sz_pass" -> {"scratch file"}
      [] OTHER -> {}

\* nothing is left at or below the scratch directory
NoScratch ==
    /\ \A q \in DOMAIN fs : ~IsPrefix(TmpDir, q.dir)
    /\ \A d \in dirs : ~IsPrefix(TmpDir, d)

C26_NamesDistinct ==
    (pc = "idle" /\ CanRead(fs, path, atype)) =>
        \A i, j \in 1..Len(GetMembers(fs, path)) :
            i # j => GetMembers(fs, path)[i].name # GetMembers(fs, path)[j].name


ArchiveCalls ==
    ArchiveOps \cup {"remove_all", "get_members", "get_member", "member_exist"}

\* C30: on a unified object over an existing file that is no tar, zip or 7z
\* container (the Archive construction failed), every archive call either
\* fails with a wrapped error or does nothing, and none changes or deletes
\* a file: remove_all and extract_all(in_place) leave the file in place
C30_FailedArchiveInert ==
    (/\ pc = "idle"
     /\ atype = NoType
     /\ op.name \in ArchiveCalls
     /\ Exists(pre.fs, path)) =>
        /\ fs = pre.fs
        /\ dirs = pre.dirs
        /\ Exists(fs, path)
        /\ res.ok \/ (res.kind # "" /\ res.cause # "")


(* ------------- two callers of remove_member on one archive ------------- *)

\* Two Archive handles on one path, each making one remove_member call.
\* Here pc, op, res and work hold one value per caller; each caller has its
\* own tempfile.TemporaryDirectory().  The steps are those of
\* archive.py:245-268; nothing in them takes a lock.
Callers == {"c1", "c2"}

Other(c) == CHOOSE d \in Callers : d # c

RaceTarget == [c1 |-> MemB.name, c2 |-> MemC.name]

TmpOf(c) == TmpDir \o <<c>>

TmpFilesOf(c) == TmpOf(c) \o <<"files">>

NewArchiveOf(c) == P(TmpOf(c), <<"new_archive">>)

CleanupOf(f, c) == [q \in {q \in DOMAIN f : ~IsPrefix(TmpOf(c), q.dir)} |-> f[q]]

CleanupDirsOf(ds, c) == {d \in ds : ~IsPrefix(TmpOf(c), d)}

\* a rebuild that starts from no listing at all
ListedNothing(f, p) == <<>>

\* archive.py:254 for member in self.get_members(): the listing the rebuild
\* iterates over, read once
ListedForRebuild(f, p) == GetMembers(f, p)

InitRace ==
    /\ \E t \in ArchiveType :
          /\ path = ArchivePath(t)
          /\ fs = Put(BaseFs, path, Arch(t, <<MemA, MemB, MemC>>))
          /\ atype = t
    /\ dirs = BaseDirs
    /\ pc = [c \in Callers |-> "start"]
    /\ op = [c \in Callers |-> [name |-> "remove_member", nm |-> RaceTarget[c]]]
    /\ res = [c \in Callers |-> Ok(<<>>)]
    /\ work = [c \in Callers |->
                 [todo |-> <<>>, adds |-> <<>>, listed |-> <<>>, after |-> FALSE]]
    /\ pre = [fs |-> fs, dirs |-> dirs, path |-> path]
    /\ prev = [op |-> [name |-> "none"], res |-> Ok(<<>>), pre |-> pre]
    /\ nops = 0
    /\ e2e = 0

RaceFrame == UNCHANGED <<path, atype, op, pre, prev, nops, e2e>>

RaceDone(c, r) ==
    /\ res' = [res EXCEPT ![c] = r]
    /\ pc' = [pc EXCEPT ![c] = "done"]

\* archive.py:245-246: the membership check; work[c].after records whether
\* the other caller's call had returned by then
RaceCheck(c) ==
    /\ pc[c] = "start"
    /\ RaceFrame
    /\ UNCHANGED <<fs, dirs>>
    /\ work' = [work EXCEPT ![c].after = (pc[Other(c)] = "done")]
    /\ IF ~MemberExist(fs, path, op[c].nm)
       THEN RaceDone(c, MemberNotFound("FailedToRemoveArchiveMember"))
       ELSE /\ pc' = [pc EXCEPT ![c] = "listing"]
            /\ UNCHANGED res

\* archive.py:248-254: the scratch directory is made and the archive listed
RaceList(c) ==
    /\ pc[c] = "listing"
    /\ RaceFrame
    /\ UNCHANGED <<fs, res>>
    /\ dirs' = dirs \cup Ancestors(TmpFilesOf(c))
    /\ work' = [work EXCEPT ![c].todo = ListedForRebuild(fs, path),
                            ![c].listed = ListedForRebuild(fs, path)]
    /\ pc' = [pc EXCEPT ![c] = "rm_extract"]

\* archive.py:254-260: one turn of the loop; the container is opened anew
\* for each kept member, as it is on disk by then, and the extraction fails
\* when it no longer holds a member of that name
RaceExtract(c) ==
    /\ pc[c] = "rm_extract"
    /\ work[c].todo # <<>>
    /\ RaceFrame
    /\ LET m == Head(work[c].todo)
       IN  IF m.name = op[c].nm
           THEN /\ work' = [work EXCEPT ![c].todo = Tail(@)]
                /\ UNCHANGED <<fs, dirs, pc, res>>
           ELSE IF ~MemberExist(fs, path, m.name)
           THEN /\ fs' = CleanupOf(fs, c)
                /\ dirs' = CleanupDirsOf(dirs, c)
                /\ RaceDone(c, Err("FailedToRemoveArchiveMember", "KeyError"))
                /\ UNCHANGED work
           ELSE /\ fs' = ExtractFiles(fs, fs[path].mem, m.name, TmpFilesOf(c))
                /\ dirs' = ExtractDirs(dirs, fs[path].mem, m.name, TmpFilesOf(c))
                /\ work' = [work EXCEPT ![c].todo = Tail(@)]
                /\ UNCHANGED <<pc, res>>

\* archive.py:262-265: the new container is opened in the caller's scratch
\* directory and the extracted files are listed
RaceOpenNew(c) ==
    /\ pc[c] = "rm_extract"
    /\ work[c].todo = <<>>
    /\ RaceFrame
    /\ \E order \in Perms(IterDir(fs, dirs, TmpFilesOf(c))) :
          work' = [work EXCEPT ![c].adds = order]
    /\ fs' = Put(fs, NewArchiveOf(c), Arch(atype, <<>>))
    /\ pc' = [pc EXCEPT ![c] = "rm_build"]
    /\ UNCHANGED <<dirs, res>>

\* archive.py:266: one extracted file is added to the new container
RaceAdd(c) ==
    /\ pc[c] = "rm_build"
    /\ work[c].adds # <<>>
    /\ RaceFrame
    /\ fs' = Put(fs, NewArchiveOf(c),
                 Arch(atype, fs[NewArchiveOf(c)].mem \o
                      AddedEntries(atype, fs, TmpFilesOf(c), Head(work[c].adds))))
    /\ work' = [work EXCEPT ![c].adds = Tail(@)]
    /\ UNCHANGED <<dirs, pc, res>>

\* archive.py:268: the rename over the shared path, whatever is there by
\* now, and the removal of the caller's scratch directory
RaceRename(c) ==
    /\ pc[c] = "rm_build"
    /\ work[c].adds = <<>>
    /\ RaceFrame
    /\ fs' = CleanupOf(Put(fs, path, fs[NewArchiveOf(c)]), c)
    /\ dirs' = CleanupDirsOf(dirs, c)
    /\ RaceDone(c, Ok(<<>>))
    /\ UNCHANGED work

NextRace ==
    \/ \E c \in Callers : RaceCheck(c)
    \/ \E c \in Callers : RaceList(c)
    \/ \E c \in Callers : RaceExtract(c)
    \/ \E c \in Callers : RaceOpenNew(c)
    \/ \E c \in Callers : RaceAdd(c)
    \/ \E c \in Callers : RaceRename(c)

SpecRace == InitRace /\ [][NextRace]_vars

BothReturned == \A c \in Callers : pc[c] = "done" /\ res[c].ok

\* C28: two callers run remove_member(other.txt) and remove_member(third.txt)
\* on an archive listing member.txt, other.txt and third.txt, and both
\* return without an error.  The final archive always lists member.txt and
\* never anything new.  It lists member.txt alone whenever one call started
\* after the other had returned, and whenever one caller listed the archive
\* after the other's rename; a removal is lost only when both callers
\* rebuilt from the full listing, each read before the other's rename.
C28_LostRemoval ==
    BothReturned =>
        LET final == NameSet(GetMembers(fs, path))
        IN  /\ MemA.name \in final
            /\ final \subseteq {MemA.name, MemB.name, MemC.name}
            /\ (\E c \in Callers : work[c].after) => final = {MemA.name}
            /\ (\E c \in Callers : Len(work[c].listed) < 3) => final = {MemA.name}
            /\ (\A c \in Callers : Len(work[c].listed) = 3) => final # {MemA.name}

\* both calls returned without an error and the archive still lists a member
\* one of them removed
C28_Witness ==
    /\ BothReturned
    /\ \E c \in Callers : RaceTarget[c] \in NameSet(GetMembers(fs, path))
    /\ \A c \in Callers : ~work[c].after

====
